---- MODULE Spec2Model ----
(***************************************************************************)
(* Model of the finance tracker's menu tool: the flat-file ledger and      *)
(* budget store, the entry operations that write them, and the derived     *)
(* metrics (budget status, financial health score) computed from them.     *)
(*                                                                         *)
(* Money is integer cents.  The Python code computes percentages in        *)
(* binary64 ((spent / limit) * 100 and the like) and compares them with    *)
(* the integer thresholds 0, 10, 20, 70, 80, 90 and 100.  For cent amounts *)
(* of the size used here the binary64 result lies on the same side of each *)
(* threshold as the exact quotient (k/100*100 evaluates to exactly k for   *)
(* each of these k), so percentages are modelled as exact rationals        *)
(* [num, den] with den > 0 and compared by cross-multiplication.  A        *)
(* quotient with den = 0 stands for a division that raised                 *)
(* ZeroDivisionError; it is carried through the arithmetic that follows,   *)
(* and a function that reaches its banding with it has raised.             *)
(***************************************************************************)
EXTENDS Integers, Sequences, FiniteSets, TLC

VARIABLES
    ledger,     \* database/transactions.txt: the sequence of records, in file order
    budgets,    \* database/budgets.txt: category -> limit in cents
    now,        \* the system clock read by datetime.now()
    out,        \* what the last menu operation printed
    call,       \* the last direct call of a scoring function, with its result
    writers,    \* the set_budget operations of processes running side by side
    backups     \* database/backups: the archives, each holding both files

vars == <<ledger, budgets, now, out, call, writers, backups>>

----------------------------------------------------------------------------
(* Bounds *)

MaxLedger == 2          \* records in the ledger file
MaxCallTx == 2          \* transactions passed to a scoring function directly
MaxScoreAmount == 12    \* income / expenses passed to a scoring function directly
MaxFileLines == 3       \* lines of a transactions file found on disk
MaxEntries == 3         \* records entered into a fresh ledger
MaxBackups == 2         \* archives in database/backups

----------------------------------------------------------------------------
(* Categories, dates and user inputs *)

EXPENSE_CATEGORIES == {"Food", "Other"}
INCOME_CATEGORIES == {"Other"}
BUDGET_CATEGORIES == {"Food", "Other"}

Date(y, m, d) == [year |-> y, month |-> m, day |-> d]

\* date.__lt__: lexicographic on (year, month, day)
DateLT(a, b) ==
    \/ a.year < b.year
    \/ a.year = b.year /\ a.month < b.month
    \/ a.year = b.year /\ a.month = b.month /\ a.day < b.day

DateGE(a, b) == ~DateLT(a, b)

\* the two instants at which the clock is read, in order
NowDates == <<Date(2025, 1, 20), Date(2026, 1, 5)>>

\* what the user types at the date prompt: "" means today, "bad" does not parse
DateStrs == {"", "2025-01-20", "2026-01-05", "bad"}

DateParses(date_str) == date_str \in {"2025-01-20", "2026-01-05"}

\* datetime.strptime(date_str, "%Y-%m-%d").date()
strptime(date_str) ==
    CASE date_str = "2025-01-20" -> Date(2025, 1, 20)
      [] date_str = "2026-01-05" -> Date(2026, 1, 5)

\* what the user types at an amount prompt
AmountStrs == {"abc", "-0.01", "0", "0.01", "0.07"}
BudgetStrs == {"abc", "0", "0.07", "0.10"}

IsFloat(amount_str) == amount_str # "abc"

\* int(float(amount_str) * 100)
Cents(amount_str) ==
    CASE amount_str = "-0.01" -> -1
      [] amount_str = "0"     -> 0
      [] amount_str = "0.01"  -> 1
      [] amount_str = "0.07"  -> 7
      [] amount_str = "0.10"  -> 10
      [] amount_str = "1.00"  -> 100
      [] amount_str = "2.011" -> 201

Descriptions == {"lunch"}

\* limits a budgets file found at start-up may hold (read without validation)
StoredLimits == {0, 10}

----------------------------------------------------------------------------
(* Exact rationals standing for the code's float percentages *)

Rat(n, d) == [num |-> n, den |-> d]
RatAdd(a, b) == Rat(a.num * b.den + b.num * a.den, a.den * b.den)
RatDivInt(a, n) == Rat(a.num, a.den * n)
RatLeq(a, b) == a.num * b.den <= b.num * a.den
RatGtInt(a, k) == a.num > k * a.den
RatGeInt(a, k) == a.num >= k * a.den
RatLeInt(a, k) == a.num <= k * a.den
\* min(utilization, 100)
RatMinInt(a, k) == IF a.den = 0 \/ RatLeInt(a, k) THEN a ELSE Rat(k, 1)

\* the outcome of a scoring function that raised ZeroDivisionError, where a
\* score would stand
ZeroDivisionError == -1

----------------------------------------------------------------------------
(* Reading the stores *)

\* datetime.strptime accepts the date text: a text it rejects is held as a
\* date outside the calendar
DateValid(date) == date.month \in 1 .. 12 /\ date.day \in 1 .. 31

\* a line of transactions.txt is held as the record of its fields.  The line
\* parses when it splits into exactly five comma-separated fields (a sixth
\* field shows as the comma in the description, a line of four fields has no
\* description), strptime accepts the date and int() accepts the last field
\* (a text int() rejects is held as amount_text in place of amount);
\* otherwise parsing it raises ValueError
WellFormed(line) ==
    /\ "description" \in DOMAIN line
    /\ "amount" \in DOMAIN line
    /\ line.description # "a,b"
    /\ DateValid(line.date)

RECURSIVE InsertDesc(_, _)
InsertDesc(t, s) ==
    IF s = <<>> THEN <<t>>
    ELSE IF DateLT(Head(s).date, t.date) THEN <<t>> \o s
    ELSE <<Head(s)>> \o InsertDesc(t, Tail(s))

RECURSIVE SortedByDateDesc(_)
\* sorted(transactions, key=date, reverse=True): stable, newest first
SortedByDateDesc(s) ==
    IF s = <<>> THEN <<>>
    ELSE InsertDesc(s[Len(s)], SortedByDateDesc(SubSeq(s, 1, Len(s) - 1)))

RECURSIVE WellFormedPrefix(_)
\* the lines before the first one that does not parse
WellFormedPrefix(file) ==
    IF file = <<>> \/ ~WellFormed(Head(file)) THEN <<>>
    ELSE <<Head(file)>> \o WellFormedPrefix(Tail(file))

\* variant: the first malformed line ends the read
_read_transactions_StopAtMalformed(file) == SortedByDateDesc(WellFormedPrefix(file))

\* a malformed line is reported and skipped, the others are returned newest first
_read_transactions(file) == SortedByDateDesc(SelectSeq(file, WellFormed))

\* budgets.txt is held as a map from the text before the comma of a line to the
\* cents after it.  Two lines that do not hold "category,integer" are held
\* under their whole text: one without a comma and one whose limit int() rejects
MalformedBudgetLines == {"Food 10", "Food,abc"}

\* line.strip().split(',') gives two fields and int() accepts the second
BudgetLineParses(key) == key \notin MalformedBudgetLines

\* _read_budgets has no handler for the ValueError of a line: it propagates
\* to the caller
_read_budgets_raises(file) == \E key \in DOMAIN file : ~BudgetLineParses(key)

\* the menu tool writes "category,cents" lines and reads the cents back with
\* int(): when no line raises, the stored map is what is read
_read_budgets(file) == file

\* dashboard.py: a line that does not split in two or whose limit int() rejects
\* is passed over, and the limits are returned in currency units
load_budgets(file) ==
    [category \in {key \in DOMAIN file : BudgetLineParses(key)} |->
        Rat(file[category], 100)]

RECURSIVE SumAmounts(_)
SumAmounts(s) == IF s = <<>> THEN 0 ELSE Head(s).amount + SumAmounts(Tail(s))

IsExpense(t) == t.type = "expense"
IsIncome(t) == t.type = "income"

----------------------------------------------------------------------------
(* budgets.py: view_budget *)

\* variant: the year is not compared
InCurrentMonth_MonthOnly(t, now_) == t.date.month = now_.month

\* the month filter of view_budget: same calendar month and same year
InCurrentMonth(t, now_) == t.date.month = now_.month /\ t.date.year = now_.year

\* monthly_spending: per budgeted category, the month's expenses of that category
monthly_spending(budgets_, all_transactions, now_) ==
    [category \in DOMAIN budgets_ |->
        SumAmounts(SelectSeq(all_transactions,
            LAMBDA t : IsExpense(t) /\ InCurrentMonth(t, now_)
                       /\ t.category = category))]

\* (spent_amount / budget_amount) * 100 if budget_amount > 0 else 0
Utilization(spent_amount, budget_amount) ==
    IF budget_amount > 0 THEN Rat(spent_amount * 100, budget_amount) ELSE Rat(0, 1)

\* variant: Over already at 100 percent
Status_OverAt100(utilization) ==
    IF RatGeInt(utilization, 100) THEN "Over"
    ELSE IF RatGtInt(utilization, 70) THEN "Warning"
    ELSE "OK"

\* the if / elif / else that picks the status
Status(utilization) ==
    IF RatGtInt(utilization, 100) THEN "Over"
    ELSE IF RatGtInt(utilization, 70) THEN "Warning"
    ELSE "OK"

BudgetRow(budget_amount, spent_amount) ==
    [limit       |-> budget_amount,
     spent       |-> spent_amount,
     remaining   |-> budget_amount - spent_amount,
     utilization |-> Utilization(spent_amount, budget_amount),
     status      |-> Status(Utilization(spent_amount, budget_amount))]

\* the table view_budget prints: one row per entry of budgets
BudgetTable(budgets_, all_transactions, now_) ==
    [category \in DOMAIN budgets_ |->
        BudgetRow(budgets_[category],
                  monthly_spending(budgets_, all_transactions, now_)[category])]

view_budget ==
    /\ out' = IF _read_budgets_raises(budgets)
              THEN [op |-> "view_budget", msg |-> "ValueError"]
              ELSE IF DOMAIN _read_budgets(budgets) = {}
              THEN [op |-> "view_budget", msg |-> "No budgets set"]
              ELSE [op |-> "view_budget", msg |-> "table",
                    title |-> [month |-> now.month, year |-> now.year],
                    rows |-> BudgetTable(_read_budgets(budgets),
                                         _read_transactions(ledger), now)]
    /\ UNCHANGED <<ledger, budgets, now, call, writers, backups>>

----------------------------------------------------------------------------
(* analytics.py: the financial health score *)

\* now.replace(day=1)
current_month_start(now_) == Date(now_.year, now_.month, 1)

\* [t for t in all_transactions if t['date'] >= current_month_start.date()]
monthly_transactions(all_transactions, now_) ==
    SelectSeq(all_transactions, LAMBDA t : DateGE(t.date, current_month_start(now_)))

\* variant: the top band needs a rate strictly above 20
_calculate_savings_rate_score_Strict(total_income, total_expenses) ==
    IF total_income = 0 THEN 0
    ELSE LET savings_rate == Rat((total_income - total_expenses) * 100, total_income)
         IN  IF savings_rate.den = 0 THEN ZeroDivisionError
             ELSE IF RatGtInt(savings_rate, 20) THEN 40
             ELSE IF RatGeInt(savings_rate, 10) THEN 30
             ELSE IF RatGeInt(savings_rate, 0) THEN 20
             ELSE 0

_calculate_savings_rate_score(total_income, total_expenses) ==
    IF total_income = 0 THEN 0
    ELSE LET savings_rate == Rat((total_income - total_expenses) * 100, total_income)
         IN  IF savings_rate.den = 0 THEN ZeroDivisionError
             ELSE IF RatGeInt(savings_rate, 20) THEN 40
             ELSE IF RatGeInt(savings_rate, 10) THEN 30
             ELSE IF RatGeInt(savings_rate, 0) THEN 20
             ELSE 0

\* spent: the expenses of the category in the list passed in
CategorySpent(monthly, category) ==
    SumAmounts(SelectSeq(monthly, LAMBDA t : IsExpense(t) /\ t.category = category))

\* variant: a limit of 0 enters the average as well
Eligible_ZeroIncluded(budgets_) == {c \in DOMAIN budgets_ : budgets_[c] >= 0}

\* the categories that enter the average: budget_amount > 0
Eligible(budgets_) == {c \in DOMAIN budgets_ : budgets_[c] > 0}

\* variant: the utilization is not clamped
ClampedUtilization_NoClamp(spent, budget_amount) == Rat(spent * 100, budget_amount)

\* min(utilization, 100) of one category
ClampedUtilization(spent, budget_amount) ==
    RatMinInt(Rat(spent * 100, budget_amount), 100)

RECURSIVE total_budget_utilized(_, _, _)
\* the running sum over the categories in cats
total_budget_utilized(monthly, budgets_, cats) ==
    IF cats = {} THEN Rat(0, 1)
    ELSE LET c == CHOOSE x \in cats : TRUE
         IN  RatAdd(ClampedUtilization(CategorySpent(monthly, c), budgets_[c]),
                    total_budget_utilized(monthly, budgets_, cats \ {c}))

\* variant: the top band pays more than the maximum
AdherenceBand_TopHeavy(avg_utilization) ==
    IF avg_utilization.den = 0 THEN ZeroDivisionError
    ELSE IF RatLeInt(avg_utilization, 80) THEN 45
    ELSE IF RatLeInt(avg_utilization, 90) THEN 25
    ELSE IF RatLeInt(avg_utilization, 100) THEN 15
    ELSE 5

\* variant: the bands in reverse order
AdherenceBand_Reversed(avg_utilization) ==
    IF avg_utilization.den = 0 THEN ZeroDivisionError
    ELSE IF RatLeInt(avg_utilization, 80) THEN 5
    ELSE IF RatLeInt(avg_utilization, 90) THEN 15
    ELSE IF RatLeInt(avg_utilization, 100) THEN 25
    ELSE 35

\* the banding of avg_utilization
AdherenceBand(avg_utilization) ==
    IF avg_utilization.den = 0 THEN ZeroDivisionError
    ELSE IF RatLeInt(avg_utilization, 80) THEN 35
    ELSE IF RatLeInt(avg_utilization, 90) THEN 25
    ELSE IF RatLeInt(avg_utilization, 100) THEN 15
    ELSE 5

\* variant: an empty budget map is not told apart from one without usable limits
_calculate_budget_adherence_score_NoEmptyCheck(monthly, budgets_) ==
    LET num_budgeted_categories == Cardinality(Eligible(budgets_))
    IN  IF num_budgeted_categories = 0 THEN 35
        ELSE AdherenceBand(
               RatDivInt(total_budget_utilized(monthly, budgets_, Eligible(budgets_)),
                         num_budgeted_categories))

_calculate_budget_adherence_score(monthly, budgets_) ==
    IF DOMAIN budgets_ = {} THEN 0
    ELSE LET num_budgeted_categories == Cardinality(Eligible(budgets_))
         IN  IF num_budgeted_categories = 0 THEN 35
             ELSE AdherenceBand(
                    RatDivInt(total_budget_utilized(monthly, budgets_, Eligible(budgets_)),
                              num_budgeted_categories))

\* total_income * 0.9 < total_expenses, in tenths
NinetyPercentBelow(total_income, total_expenses) ==
    total_income * 9 < total_expenses * 10

\* variant: the top score already when income equals expenses
_calculate_income_expense_score_AtLeast(total_income, total_expenses) ==
    IF total_income = 0 THEN 0
    ELSE IF total_income >= total_expenses THEN 25
    ELSE IF NinetyPercentBelow(total_income, total_expenses) THEN 10
    ELSE 0

_calculate_income_expense_score(total_income, total_expenses) ==
    IF total_income = 0 THEN 0
    ELSE IF total_income > total_expenses THEN 25
    ELSE IF NinetyPercentBelow(total_income, total_expenses) THEN 10
    ELSE 0

\* the band of the message _interpret_score prints
_interpret_score(score) ==
    IF score >= 75 THEN "Excellent"
    ELSE IF score >= 50 THEN "Good"
    ELSE "Needs Attention"

HealthScore(all_transactions, budgets_, now_) ==
    LET monthly == monthly_transactions(all_transactions, now_)
        total_income == SumAmounts(SelectSeq(monthly, IsIncome))
        total_expenses == SumAmounts(SelectSeq(monthly, IsExpense))
        savings_rate_score == _calculate_savings_rate_score(total_income, total_expenses)
        budget_adherence_score == _calculate_budget_adherence_score(monthly, budgets_)
        income_expense_score == _calculate_income_expense_score(total_income, total_expenses)
        final_score == savings_rate_score + budget_adherence_score + income_expense_score
    IN  [op |-> "financial_health_score",
         monthly |-> monthly,
         total_income |-> total_income,
         total_expenses |-> total_expenses,
         savings_rate_score |-> savings_rate_score,
         budget_adherence_score |-> budget_adherence_score,
         income_expense_score |-> income_expense_score,
         final_score |-> final_score,
         interpretation |-> _interpret_score(final_score)]

financial_health_score ==
    /\ out' = IF _read_budgets_raises(budgets)
              THEN [op |-> "financial_health_score", msg |-> "ValueError"]
              ELSE HealthScore(_read_transactions(ledger), _read_budgets(budgets), now)
    /\ UNCHANGED <<ledger, budgets, now, call, writers, backups>>

----------------------------------------------------------------------------
(* dashboard.py: the Financial Health tab *)

\* load_transactions keeps a line of five or more fields whose last field
\* int() accepts; the surplus commas go into the description
Loadable(line) == "description" \in DOMAIN line /\ "amount" \in DOMAIN line

load_transactions(file) == SelectSeq(file, Loadable)

\* (amount / 100 * 100).astype(int): the cents of a row after the round trip
\* through currency units, which truncates where the binary64 product falls
\* just below the integer
CentsViaUnits(amount) ==
    CASE amount = 29  -> 28
      [] amount = 201 -> 200
      [] OTHER        -> amount

\* transactions_df['date'] >= current_month_start: the rows carry midnight,
\* the start of the month carries the clock's time of day
DashboardInMonth(t, now_, midnight) ==
    IF midnight THEN DateGE(t.date, current_month_start(now_))
    ELSE DateLT(current_month_start(now_), t.date)

\* budget_amount > 0, on limits in currency units
dashboard_Eligible(budgets_) == {c \in DOMAIN budgets_ : budgets_[c].num > 0}

\* min((spent / budget_amount) * 100, 100) with spent in cents and
\* budget_amount in currency units
dashboard_ClampedUtilization(spent, budget_amount) ==
    RatMinInt(Rat(spent * 100 * budget_amount.den, budget_amount.num), 100)

RECURSIVE dashboard_total_budget_utilized(_, _, _)
dashboard_total_budget_utilized(monthly, budgets_, cats) ==
    IF cats = {} THEN Rat(0, 1)
    ELSE LET c == CHOOSE x \in cats : TRUE
         IN  RatAdd(dashboard_ClampedUtilization(CategorySpent(monthly, c), budgets_[c]),
                    dashboard_total_budget_utilized(monthly, budgets_, cats \ {c}))

\* the dashboard's copy of _calculate_budget_adherence_score, as it is called
dashboard_calculate_budget_adherence_score(monthly, budgets_) ==
    IF DOMAIN budgets_ = {} THEN 0
    ELSE LET num_budgeted_categories == Cardinality(dashboard_Eligible(budgets_))
         IN  IF num_budgeted_categories = 0 THEN 35
             ELSE AdherenceBand(
                    RatDivInt(dashboard_total_budget_utilized(
                                  monthly, budgets_, dashboard_Eligible(budgets_)),
                              num_budgeted_categories))

\* the scores of the tab.  The income and expense totals are sums of currency
\* units; the savings rate and the income-vs-expense tests compare the two
\* totals with each other only, so they are computed here on the cents
DashboardHealth(file, budgets_file, now_, midnight) ==
    LET transactions == load_transactions(file)
        monthly == SelectSeq(transactions, LAMBDA t : DashboardInMonth(t, now_, midnight))
        monthly_transactions_list ==
            [i \in 1 .. Len(monthly) |->
                [monthly[i] EXCEPT !.amount = CentsViaUnits(@)]]
        total_income == SumAmounts(SelectSeq(monthly, IsIncome))
        total_expenses == SumAmounts(SelectSeq(monthly, IsExpense))
        savings_rate_score == _calculate_savings_rate_score(total_income, total_expenses)
        budget_adherence_score ==
            dashboard_calculate_budget_adherence_score(monthly_transactions_list,
                                                       load_budgets(budgets_file))
        income_expense_score == _calculate_income_expense_score(total_income, total_expenses)
    IN  IF \E i \in 1 .. Len(transactions) : ~DateValid(transactions[i].date)
        THEN [op |-> "dashboard_financial_health", msg |-> "ValueError"]
        ELSE IF transactions = <<>>
        THEN [op |-> "dashboard_financial_health",
              msg |-> "No transaction data available"]
        ELSE [op |-> "dashboard_financial_health", msg |-> "score",
              savings_rate_score |-> savings_rate_score,
              budget_adherence_score |-> budget_adherence_score,
              income_expense_score |-> income_expense_score,
              final_score |-> savings_rate_score + budget_adherence_score
                                  + income_expense_score,
              interpretation |-> _interpret_score(savings_rate_score
                                     + budget_adherence_score + income_expense_score)]

dashboard_financial_health(midnight) ==
    /\ out' = DashboardHealth(ledger, budgets, now, midnight)
    /\ UNCHANGED <<ledger, budgets, now, call, writers, backups>>

----------------------------------------------------------------------------
(* smart_assistant.py: detect_unusual_spending, get_recommendations *)

\* variant: an amount of exactly twice the average is already unusual
detect_unusual_spending_AtLeast(transactions, new_transaction) ==
    LET category_transactions ==
            SelectSeq(transactions, LAMBDA t : t.category = new_transaction.category)
    IN  /\ category_transactions # <<>>
        /\ new_transaction.amount * Len(category_transactions)
               >= 2 * SumAmounts(category_transactions)

\* amount > 2 * (sum / len) over the transactions of the category, False if none
detect_unusual_spending(transactions, new_transaction) ==
    LET category_transactions ==
            SelectSeq(transactions, LAMBDA t : t.category = new_transaction.category)
    IN  /\ category_transactions # <<>>
        /\ new_transaction.amount * Len(category_transactions)
               > 2 * SumAmounts(category_transactions)

RECURSIVE SpendingKeys(_)
\* the keys of the dict spending_by_category in insertion order: the categories
\* of the expenses, each at the place of its first expense
SpendingKeys(transactions) ==
    IF transactions = <<>> THEN <<>>
    ELSE LET keys == SpendingKeys(SubSeq(transactions, 1, Len(transactions) - 1))
             t == transactions[Len(transactions)]
         IN  IF IsExpense(t) /\ \A i \in 1 .. Len(keys) : keys[i] # t.category
             THEN Append(keys, t.category)
             ELSE keys

\* spending_by_category[category]
spending_by_category(transactions) ==
    [category \in {SpendingKeys(transactions)[i] :
                       i \in 1 .. Len(SpendingKeys(transactions))} |->
        CategorySpent(transactions, category)]

\* variant: a total of exactly 200.00 already counts as significant
SignificantSpend_AtLeast(total_spent) == total_spent >= 20000

\* total_spent > 20000
SignificantSpend(total_spent) == total_spent > 20000

RECURSIVE NoBudgetAdvice(_, _, _)
\* the first loop over spending_by_category.items(): one advisory per category
\* without a budget and with significant spend, in dict order
NoBudgetAdvice(keys, spending, budgeted_categories) ==
    IF keys = <<>> THEN <<>>
    ELSE LET category == Head(keys)
             rest == NoBudgetAdvice(Tail(keys), spending, budgeted_categories)
         IN  IF category \notin budgeted_categories /\ SignificantSpend(spending[category])
             THEN <<[kind |-> "no_budget", category |-> category]>> \o rest
             ELSE rest

\* variant: among equal totals the key inserted last wins
highest_spending_category_LastMax(keys, spending) ==
    keys[CHOOSE i \in 1 .. Len(keys) :
            /\ \A j \in 1 .. Len(keys) : spending[keys[j]] <= spending[keys[i]]
            /\ \A j \in (i + 1) .. Len(keys) : spending[keys[j]] < spending[keys[i]]]

\* max(spending_by_category, key=spending_by_category.get): the first key, in
\* dict order, whose total no other key exceeds
highest_spending_category(keys, spending) ==
    keys[CHOOSE i \in 1 .. Len(keys) :
            /\ \A j \in 1 .. Len(keys) : spending[keys[j]] <= spending[keys[i]]
            /\ \A j \in 1 .. (i - 1) : spending[keys[j]] < spending[keys[i]]]

\* the list returned: each advisory stands for the sentence about its category
get_recommendations(transactions, budgets_) ==
    LET keys == SpendingKeys(transactions)
        spending == spending_by_category(transactions)
    IN  NoBudgetAdvice(keys, spending, DOMAIN budgets_)
        \o (IF keys # <<>>
            THEN <<[kind |-> "highest_spending",
                    category |-> highest_spending_category(keys, spending)]>>
            ELSE <<>>)

----------------------------------------------------------------------------
(* transactions.py: add_expense, add_income; budgets.py: set_budget *)

\* date_str parsed, or today when the prompt is left empty
EntryDate(date_str, now_) == IF date_str = "" THEN now_ ELSE strptime(date_str)

\* variant: the sign of the amount is not checked
AmountAccepted_NoSignCheck(amount_str) == IsFloat(amount_str)

\* the amount prompt accepts the text: it is a number and it is positive
AmountAccepted(amount_str) == IsFloat(amount_str) /\ Cents(amount_str) > 0

Record(date, type, category, description, amount) ==
    [date |-> date, type |-> type, category |-> category,
     description |-> description, amount |-> amount]

add_expense(amount_str, category, description, date_str) ==
    /\ IF ~IsFloat(amount_str)
       THEN /\ out' = [op |-> "add_expense", msg |-> "Invalid amount", warning |-> FALSE]
            /\ UNCHANGED ledger
       ELSE IF ~AmountAccepted(amount_str)
       THEN /\ out' = [op |-> "add_expense", msg |-> "Amount must be positive",
                       warning |-> FALSE]
            /\ UNCHANGED ledger
       ELSE IF ~(date_str = "" \/ DateParses(date_str))
       THEN /\ out' = [op |-> "add_expense", msg |-> "Invalid amount", warning |-> FALSE]
            /\ UNCHANGED ledger
       ELSE LET new_transaction ==
                    Record(EntryDate(date_str, now), "expense", category,
                           description, Cents(amount_str))
            IN  /\ ledger' = Append(ledger, new_transaction)
                /\ out' = [op |-> "add_expense", msg |-> "Expense added",
                           warning |-> detect_unusual_spending(
                                           _read_transactions(ledger'), new_transaction)]
    /\ UNCHANGED <<budgets, now, call, writers, backups>>

add_income(amount_str, source, description, date_str) ==
    /\ IF ~IsFloat(amount_str)
       THEN /\ out' = [op |-> "add_income", msg |-> "Invalid amount"]
            /\ UNCHANGED ledger
       ELSE IF ~AmountAccepted(amount_str)
       THEN /\ out' = [op |-> "add_income", msg |-> "Amount must be positive"]
            /\ UNCHANGED ledger
       ELSE IF ~(date_str = "" \/ DateParses(date_str))
       THEN /\ out' = [op |-> "add_income", msg |-> "Invalid amount"]
            /\ UNCHANGED ledger
       ELSE /\ ledger' = Append(ledger,
                             Record(EntryDate(date_str, now), "income", source,
                                    description, Cents(amount_str)))
            /\ out' = [op |-> "add_income", msg |-> "Income added"]
    /\ UNCHANGED <<budgets, now, call, writers, backups>>

\* variant: the file is rewritten with the new entry alone
WithBudget_NewOnly(budgets_, category, amount) == [c \in {category} |-> amount]

\* budgets[category] = amount
WithBudget(budgets_, category, amount) ==
    [c \in DOMAIN budgets_ \cup {category} |->
        IF c = category THEN amount ELSE budgets_[c]]

\* variant: the lines are added to what the file holds
_write_budgets_Merge(file, budgets_) ==
    [c \in DOMAIN file \cup DOMAIN budgets_ |->
        IF c \in DOMAIN budgets_ THEN budgets_[c] ELSE file[c]]

\* the file after _write_budgets: opened with "w", it holds the lines of the
\* dict passed in and nothing of what it held
_write_budgets(file, budgets_) == budgets_

set_budget(category, amount_str) ==
    /\ IF ~IsFloat(amount_str)
       THEN /\ out' = [op |-> "set_budget", msg |-> "Invalid amount"]
            /\ UNCHANGED budgets
       ELSE IF ~AmountAccepted(amount_str)
       THEN /\ out' = [op |-> "set_budget", msg |-> "Budget amount must be positive"]
            /\ UNCHANGED budgets
       ELSE IF _read_budgets_raises(budgets)
       THEN /\ out' = [op |-> "set_budget", msg |-> "Invalid amount"]
            /\ UNCHANGED budgets
       ELSE /\ budgets' = _write_budgets(budgets,
                              WithBudget(_read_budgets(budgets), category,
                                         Cents(amount_str)))
            /\ out' = [op |-> "set_budget", msg |-> "Budget set"]
    /\ UNCHANGED <<ledger, now, call, writers, backups>>

\* transactions.py: list_transactions; the rows of the table are the
\* transactions as read
list_transactions ==
    /\ out' = IF _read_transactions(ledger) = <<>>
              THEN [op |-> "list_transactions", msg |-> "No transactions found"]
              ELSE [op |-> "list_transactions", msg |-> "table",
                    rows |-> _read_transactions(ledger)]
    /\ UNCHANGED <<ledger, budgets, now, call, writers, backups>>

\* variant: the type of a transaction is not looked at
TotalOfType_AnyType(transactions, type) == SumAmounts(transactions)

\* sum(t['amount'] for t in transactions if t['type'] == type)
TotalOfType(transactions, type) ==
    SumAmounts(SelectSeq(transactions, LAMBDA t : t.type = type))

\* transactions.py: show_balance
show_balance ==
    /\ LET transactions == _read_transactions(ledger)
           total_income == TotalOfType(transactions, "income")
           total_expenses == TotalOfType(transactions, "expense")
       IN  out' = [op |-> "show_balance",
                   total_income |-> total_income,
                   total_expenses |-> total_expenses,
                   balance |-> total_income - total_expenses]
    /\ UNCHANGED <<ledger, budgets, now, call, writers, backups>>

\* time passes between two operations
Tick ==
    /\ now = NowDates[1]
    /\ now' = NowDates[2]
    /\ UNCHANGED <<ledger, budgets, out, call, writers, backups>>

----------------------------------------------------------------------------
(* The menu tool *)

NoCall == [fn |-> "none", done |-> FALSE]

\* no second process is at work
NoWriters == <<>>

\* the budget maps a budgets file found at start-up may hold
StoredBudgets ==
    UNION {[cats -> StoredLimits] : cats \in SUBSET BUDGET_CATEGORIES}

Init ==
    /\ ledger = <<>>
    /\ budgets \in StoredBudgets
    /\ now = NowDates[1]
    /\ out = [op |-> "main"]
    /\ call = NoCall
    /\ writers = NoWriters
    /\ backups = {}

Next ==
    \/ \E amount_str \in AmountStrs, category \in EXPENSE_CATEGORIES,
          description \in Descriptions, date_str \in DateStrs :
           Len(ledger) < MaxLedger
               /\ add_expense(amount_str, category, description, date_str)
    \/ \E amount_str \in AmountStrs, source \in INCOME_CATEGORIES,
          description \in Descriptions, date_str \in DateStrs :
           Len(ledger) < MaxLedger
               /\ add_income(amount_str, source, description, date_str)
    \/ \E category \in BUDGET_CATEGORIES, amount_str \in BudgetStrs :
           set_budget(category, amount_str)
    \/ view_budget
    \/ financial_health_score
    \/ Tick

Spec == Init /\ [][Next]_vars

----------------------------------------------------------------------------
(* The entry operations of the menu tool on a fresh store *)

\* amounts typed at the prompt: 1.00 and 2.011 are stored as 100 and 201 cents
EntryAmountStrs == {"abc", "-0.01", "0", "1.00", "2.011"}

\* descriptions typed at the prompt, one of them with a comma
EntryDescriptions == {"lunch", "a,b"}

EntryDateStrs == {"", "bad"}

InitEntry ==
    /\ ledger = <<>>
    /\ budgets = <<>>
    /\ now = NowDates[1]
    /\ out = [op |-> "main"]
    /\ call = NoCall
    /\ writers = NoWriters
    /\ backups = {}

NextEntry ==
    \/ \E amount_str \in EntryAmountStrs, description \in EntryDescriptions,
          date_str \in EntryDateStrs :
           Len(ledger) < MaxEntries
               /\ add_expense(amount_str, "Food", description, date_str)
    \/ \E amount_str \in EntryAmountStrs, date_str \in EntryDateStrs :
           Len(ledger) < MaxEntries
               /\ add_income(amount_str, "Other", "lunch", date_str)
    \/ \E category \in BUDGET_CATEGORIES, amount_str \in BudgetStrs :
           set_budget(category, amount_str)

SpecEntry == InitEntry /\ [][NextEntry]_vars

----------------------------------------------------------------------------
(* Two processes in set_budget at the same time: the menu tool started twice *)

Processes == {1, 2}

\* a process at the amount prompt of set_budget
Asking(category, amount_str) ==
    [pc |-> "ask", category |-> category, amount_str |-> amount_str,
     budgets |-> <<>>, msg |-> ""]

\* amount = int(float(amount_str) * 100); if amount <= 0: return
WriterValidate(p) ==
    /\ writers[p].pc = "ask"
    /\ writers' = [writers EXCEPT ![p] =
           IF ~IsFloat(writers[p].amount_str)
           THEN [@ EXCEPT !.pc = "done", !.msg = "Invalid amount"]
           ELSE IF ~AmountAccepted(writers[p].amount_str)
           THEN [@ EXCEPT !.pc = "done", !.msg = "Budget amount must be positive"]
           ELSE [@ EXCEPT !.pc = "validated"]]
    /\ UNCHANGED <<ledger, budgets, now, out, call, backups>>

\* budgets = _read_budgets()
WriterRead(p) ==
    /\ writers[p].pc = "validated"
    /\ writers' = [writers EXCEPT ![p] =
           [@ EXCEPT !.pc = "read", !.budgets = _read_budgets(budgets)]]
    /\ UNCHANGED <<ledger, budgets, now, out, call, backups>>

\* budgets[category] = amount
WriterUpdate(p) ==
    /\ writers[p].pc = "read"
    /\ writers' = [writers EXCEPT ![p] =
           [@ EXCEPT !.pc = "updated",
                     !.budgets = WithBudget(@, writers[p].category,
                                            Cents(writers[p].amount_str))]]
    /\ UNCHANGED <<ledger, budgets, now, out, call, backups>>

\* _write_budgets(budgets), then the success message
WriterWrite(p) ==
    /\ writers[p].pc = "updated"
    /\ budgets' = _write_budgets(budgets, writers[p].budgets)
    /\ writers' = [writers EXCEPT ![p] = [@ EXCEPT !.pc = "done", !.msg = "Budget set"]]
    /\ UNCHANGED <<ledger, now, out, call, backups>>

\* the budgets files the two processes start on
SharedBudgets == {<<>>, [c \in {"Food"} |-> 7]}

InitConcurrent ==
    /\ ledger = <<>>
    /\ budgets \in SharedBudgets
    /\ now = NowDates[1]
    /\ out = [op |-> "main"]
    /\ call = NoCall
    /\ writers \in [Processes -> {Asking(category, amount_str) :
                                     category \in BUDGET_CATEGORIES,
                                     amount_str \in BudgetStrs}]
    /\ backups = {}

NextConcurrent ==
    \E p \in Processes :
        \/ WriterValidate(p)
        \/ WriterRead(p)
        \/ WriterUpdate(p)
        \/ WriterWrite(p)

SpecConcurrent == InitConcurrent /\ [][NextConcurrent]_vars

----------------------------------------------------------------------------
(* data_management.py: create_backup, restore_backup *)

\* shutil.make_archive of the database directory: both files as they are
Archive(transactions_file, budgets_file) ==
    [transactions |-> transactions_file, budgets |-> budgets_file]

\* an archive written within the same second replaces the one of that name;
\* archives with the same content are not told apart here
create_backup ==
    /\ backups' = backups \cup {Archive(ledger, budgets)}
    /\ out' = [op |-> "create_backup", msgs |-> <<"Backup created">>]
    /\ UNCHANGED <<ledger, budgets, now, call, writers>>

\* how far the body of the try gets: os.remove raises on the first file,
\* unpack_archive raises before it wrote a file, after it wrote one of the two
\* (the order of the members is the directory's), or it completes
UnpackOutcomes ==
    {"remove raises", "unpack raises", "unpack raises after transactions",
     "unpack raises after budgets", "unpacked"}

\* the files after the body of the try, by outcome
RestoredTransactions(selected, outcome) ==
    CASE outcome = "remove raises" -> ledger
      [] outcome \in {"unpacked", "unpack raises after transactions"}
           -> selected.transactions
      [] OTHER -> <<>>

RestoredBudgets(selected, outcome) ==
    CASE outcome = "remove raises" -> budgets
      [] outcome \in {"unpacked", "unpack raises after budgets"} -> selected.budgets
      [] OTHER -> <<>>

\* what restore_backup prints after the selection: the line of the try or of
\* the except, then the line after the try statement
RestoreMessages(outcome) ==
    <<IF outcome = "unpacked" THEN "Backup 'name' restored successfully!"
      ELSE "Error restoring backup",
      "Backup restored successfully!">>

\* restore_backup with no archive in database/backups
restore_backup_NoBackups ==
    /\ backups = {}
    /\ out' = [op |-> "restore_backup", msgs |-> <<"No backups found">>]
    /\ UNCHANGED <<ledger, budgets, now, call, writers, backups>>

\* restore_backup left at the selection prompt
restore_backup_Cancelled ==
    /\ backups # {}
    /\ out' = [op |-> "restore_backup", msgs |-> <<"Backup restoration cancelled">>]
    /\ UNCHANGED <<ledger, budgets, now, call, writers, backups>>

restore_backup(selected, outcome) ==
    /\ selected \in backups
    /\ ledger' = RestoredTransactions(selected, outcome)
    /\ budgets' = RestoredBudgets(selected, outcome)
    /\ out' = [op |-> "restore_backup", msgs |-> RestoreMessages(outcome)]
    /\ UNCHANGED <<now, call, writers, backups>>

InitBackup ==
    /\ ledger = <<>>
    /\ budgets = <<>>
    /\ now = NowDates[1]
    /\ out = [op |-> "main"]
    /\ call = NoCall
    /\ writers = NoWriters
    /\ backups = {}

NextBackup ==
    \/ Len(ledger) < MaxLedger /\ add_expense("0.07", "Food", "lunch", "")
    \/ set_budget("Food", "0.10")
    \/ Cardinality(backups) < MaxBackups /\ create_backup
    \/ restore_backup_NoBackups
    \/ restore_backup_Cancelled
    \/ \E selected \in backups, outcome \in UnpackOutcomes :
           restore_backup(selected, outcome)

SpecBackup == InitBackup /\ [][NextBackup]_vars

----------------------------------------------------------------------------
(* The menu tool started on files found on disk, edited by other hands *)

FileAmounts == {333, 334}

\* lines that parse
GoodLines ==
    {Record(NowDates[1], type, "Food", "lunch", amount) :
        type \in {"expense", "income"}, amount \in FileAmounts}

\* lines that do not: six fields, four fields, a date strptime rejects, an
\* amount int() rejects
BadLines ==
    {Record(NowDates[1], "expense", "Food", "a,b", 333),
     [date |-> NowDates[1], type |-> "expense", category |-> "Food", amount |-> 333],
     Record(Date(2025, 13, 1), "expense", "Food", "lunch", 333),
     [date |-> NowDates[1], type |-> "expense", category |-> "Food",
      description |-> "lunch", amount_text |-> "3.33"]}

FoundLedgers == UNION {[1 .. n -> GoodLines \cup BadLines] : n \in 0 .. MaxFileLines}

\* budgets files: none, two clean ones, and two with a malformed line
FoundBudgets ==
    {<<>>,
     [key \in {"Food"} |-> 10],
     [key \in {"Food"} |-> 1000],
     [key \in {"Food", "Food,abc"} |-> IF key = "Food" THEN 10 ELSE 0],
     [key \in {"Food 10"} |-> 0]}

InitFiles ==
    /\ ledger \in FoundLedgers
    /\ budgets \in FoundBudgets
    /\ now = NowDates[1]
    /\ out = [op |-> "main"]
    /\ call = NoCall
    /\ writers = NoWriters
    /\ backups = {}

NextFiles ==
    \/ list_transactions
    \/ show_balance
    \/ view_budget
    \/ financial_health_score
    \/ \E category \in BUDGET_CATEGORIES, amount_str \in BudgetStrs :
           set_budget(category, amount_str)
    \/ \E midnight \in BOOLEAN : dashboard_financial_health(midnight)

SpecFiles == InitFiles /\ [][NextFiles]_vars

----------------------------------------------------------------------------
(* The scoring functions called directly, on arguments of the caller's choice *)

\* income / expenses totals passed in: small values and the documented examples
ScoreAmounts == (0 .. MaxScoreAmount) \cup {800, 810, 1000}

CallAmounts == {8, 9, 12}
CallLimits == {-10, 0, 10}

\* the transactions a caller may pass in
CallTransactions ==
    {Record(NowDates[1], type, category, "lunch", amount) :
        type \in {"expense", "income"}, category \in BUDGET_CATEGORIES,
        amount \in CallAmounts}

CallLists == UNION {[1 .. n -> CallTransactions] : n \in 0 .. MaxCallTx}

CallBudgets == UNION {[cats -> CallLimits] : cats \in SUBSET BUDGET_CATEGORIES}

\* the calls a caller may make, before they return
PendingCalls ==
    {[fn |-> fn, total_income |-> i, total_expenses |-> e, done |-> FALSE, result |-> 0] :
        fn \in {"_calculate_savings_rate_score", "_calculate_income_expense_score"},
        i \in ScoreAmounts, e \in ScoreAmounts}
    \cup
    {[fn |-> "_calculate_budget_adherence_score", monthly |-> m, budgets |-> b,
      done |-> FALSE, result |-> 0] : m \in CallLists, b \in CallBudgets}

CallSavingsRateScore ==
    /\ call.fn = "_calculate_savings_rate_score" /\ ~call.done
    /\ call' = [call EXCEPT !.done = TRUE,
                            !.result = _calculate_savings_rate_score(
                                           call.total_income, call.total_expenses)]
    /\ UNCHANGED <<ledger, budgets, now, out, writers, backups>>

CallIncomeExpenseScore ==
    /\ call.fn = "_calculate_income_expense_score" /\ ~call.done
    /\ call' = [call EXCEPT !.done = TRUE,
                            !.result = _calculate_income_expense_score(
                                           call.total_income, call.total_expenses)]
    /\ UNCHANGED <<ledger, budgets, now, out, writers, backups>>

CallBudgetAdherenceScore ==
    /\ call.fn = "_calculate_budget_adherence_score" /\ ~call.done
    /\ call' = [call EXCEPT !.done = TRUE,
                            !.result = _calculate_budget_adherence_score(
                                           call.monthly, call.budgets)]
    /\ UNCHANGED <<ledger, budgets, now, out, writers, backups>>

InitScoring ==
    /\ ledger = <<>>
    /\ budgets = <<>>
    /\ now = NowDates[1]
    /\ out = [op |-> "main"]
    /\ call \in PendingCalls
    /\ writers = NoWriters
    /\ backups = {}

NextScoring ==
    \/ CallSavingsRateScore
    \/ CallIncomeExpenseScore
    \/ CallBudgetAdherenceScore

SpecScoring == InitScoring /\ [][NextScoring]_vars

----------------------------------------------------------------------------
(* The smart assistant's functions called directly *)

\* amounts around twice an average of 100
DetectAmounts == {100, 200, 201}

\* amounts around the 200.00 threshold of the no-budget advisory
AdviceAmounts == {10000, 20000, 25000}

TransactionsOf(amounts) ==
    {Record(NowDates[1], type, category, "lunch", amount) :
        type \in {"expense", "income"}, category \in EXPENSE_CATEGORIES,
        amount \in amounts}

ListsOf(amounts) == UNION {[1 .. n -> TransactionsOf(amounts)] : n \in 0 .. MaxCallTx}

\* budget maps by the categories they hold; get_recommendations reads the keys only
AdviceBudgets == UNION {[cats -> {10}] : cats \in SUBSET BUDGET_CATEGORIES}

PendingAssistantCalls ==
    {[fn |-> "detect_unusual_spending", transactions |-> ts, new_transaction |-> t,
      done |-> FALSE, result |-> FALSE] :
        ts \in ListsOf(DetectAmounts),
        t \in {x \in TransactionsOf(DetectAmounts) : x.type = "expense"}}
    \cup
    {[fn |-> "get_recommendations", transactions |-> ts, budgets |-> b,
      done |-> FALSE, result |-> <<>>] :
        ts \in ListsOf(AdviceAmounts), b \in AdviceBudgets}

CallDetectUnusualSpending ==
    /\ call.fn = "detect_unusual_spending" /\ ~call.done
    /\ call' = [call EXCEPT !.done = TRUE,
                            !.result = detect_unusual_spending(
                                           call.transactions, call.new_transaction)]
    /\ UNCHANGED <<ledger, budgets, now, out, writers, backups>>

CallGetRecommendations ==
    /\ call.fn = "get_recommendations" /\ ~call.done
    /\ call' = [call EXCEPT !.done = TRUE,
                            !.result = get_recommendations(
                                           call.transactions, call.budgets)]
    /\ UNCHANGED <<ledger, budgets, now, out, writers, backups>>

InitAssistant ==
    /\ ledger = <<>>
    /\ budgets = <<>>
    /\ now = NowDates[1]
    /\ out = [op |-> "main"]
    /\ call \in PendingAssistantCalls
    /\ writers = NoWriters
    /\ backups = {}

NextAssistant ==
    \/ CallDetectUnusualSpending
    \/ CallGetRecommendations

SpecAssistant == InitAssistant /\ [][NextAssistant]_vars

----------------------------------------------------------------------------
(* Properties of view_budget *)

\* the rows of the table on screen, if the last operation printed one
ViewRows == IF out.op = "view_budget" /\ out.msg = "table" THEN out.rows ELSE <<>>

\* the expenses of a category dated in a given year and month, from the file
SpentInMonth(category, year, month) ==
    SumAmounts(SelectSeq(ledger,
        LAMBDA t : t.type = "expense" /\ t.category = category
                   /\ t.date.year = year /\ t.date.month = month))

StatusRank(status) ==
    CASE status = "OK" -> 0 [] status = "Warning" -> 1 [] status = "Over" -> 2

\* C1: in view_budget every category with a positive limit whose spend is at
\* least 70% and at most 100% of the limit has status Warning; a spend of
\* exactly 70% is Warning, not OK.
C1_WarningFrom70To100 ==
    \A c \in DOMAIN ViewRows :
        LET r == ViewRows[c]
        IN  (r.limit > 0 /\ r.spent * 100 >= 70 * r.limit
                         /\ r.spent * 100 <= 100 * r.limit)
            => r.status = "Warning"

\* C2: in view_budget a category with a positive limit is Over exactly when
\* its spend strictly exceeds the limit; a spend equal to the limit is Warning.
C2_OverIffAboveLimit ==
    \A c \in DOMAIN ViewRows :
        LET r == ViewRows[c]
        IN  r.limit > 0 =>
              /\ (r.status = "Over") <=> (r.spent > r.limit)
              /\ r.spent = r.limit => r.status = "Warning"
              /\ r.spent = r.limit + 1 => r.status = "Over"

\* C2 witness: a table row whose spend equals its positive limit, shown as Warning
C2_Witness ==
    \E c \in DOMAIN ViewRows :
        /\ ViewRows[c].limit > 0
        /\ ViewRows[c].spent = ViewRows[c].limit
        /\ ViewRows[c].status = "Warning"

\* C3: with the budget map and the clock unchanged, a step that appends an
\* expense to the ledger lowers no budgeted category's utilization and moves
\* no status backwards in the order OK < Warning < Over.
C3_SpendMonotone ==
    [][(/\ Len(ledger') = Len(ledger) + 1
        /\ ledger'[Len(ledger')].type = "expense"
        /\ budgets' = budgets
        /\ now' = now)
       => \A c \in DOMAIN budgets :
            LET before == BudgetTable(budgets, _read_transactions(ledger), now)[c]
                after  == BudgetTable(budgets', _read_transactions(ledger'), now')[c]
            IN  /\ RatLeq(before.utilization, after.utilization)
                /\ StatusRank(before.status) <= StatusRank(after.status)]_vars

\* C3 witness: add_expense has just recorded an expense that moved a budgeted
\* category to a later status than it had without that expense
C3_Witness ==
    /\ out.op = "add_expense" /\ out.msg = "Expense added"
    /\ Len(ledger) >= 2
    /\ \E c \in DOMAIN budgets :
         StatusRank(BudgetTable(budgets,
                        _read_transactions(SubSeq(ledger, 1, Len(ledger) - 1)),
                        now)[c].status)
           < StatusRank(BudgetTable(budgets, _read_transactions(ledger), now)[c].status)

\* C4: view_budget prints one row per category of the budget map and no other;
\* a row's spent is the sum of the expenses of that category dated in the
\* year and month of the table, remaining is limit - spent, and a limit of 0
\* gives utilization 0 and status OK.
C4_RowsMatchBudgets ==
    out.op = "view_budget" =>
        IF out.msg = "table"
        THEN /\ DOMAIN out.rows = DOMAIN budgets
             /\ \A c \in DOMAIN out.rows :
                  LET r == out.rows[c]
                  IN  /\ r.limit = budgets[c]
                      /\ r.spent = SpentInMonth(c, out.title.year, out.title.month)
                      /\ r.remaining = r.limit - r.spent
                      /\ r.limit = 0 => (r.utilization.num = 0 /\ r.status = "OK")
        ELSE DOMAIN budgets = {}

\* C4 witness: a table with a zero-limit category that has spend, over a ledger
\* that also holds an income record of a budgeted category
C4_Witness ==
    /\ \E c \in DOMAIN ViewRows :
         /\ ViewRows[c].limit = 0
         /\ ViewRows[c].spent > 0
         /\ ViewRows[c].remaining < 0
         /\ ViewRows[c].status = "OK"
    /\ \E i \in 1 .. Len(ledger) :
         ledger[i].type = "income" /\ ledger[i].category \in DOMAIN budgets

----------------------------------------------------------------------------
(* Properties of the financial health score *)

SameMonth(t, now_) == t.date.year = now_.year /\ t.date.month = now_.month

\* C5: the monthly transaction set of financial_health_score holds exactly the
\* transactions dated in the year and month of the reference date, in the
\* order read, so that the month's income and expenses count no later date.
C5_MonthlyIsReferenceMonth ==
    [][(out'.op = "financial_health_score" /\ now' = now /\ ledger' = ledger)
       => LET same == SelectSeq(_read_transactions(ledger'),
                                LAMBDA t : SameMonth(t, now'))
          IN  /\ out'.monthly = same
              /\ out'.total_income = SumAmounts(SelectSeq(same, IsIncome))
              /\ out'.total_expenses = SumAmounts(SelectSeq(same, IsExpense))]_vars

\* a direct call of the named scoring function has returned
Returned(fn) == call.fn = fn /\ call.done

\* C6: _calculate_savings_rate_score returns 0 for income 0; otherwise 40 for a
\* rate of at least 20%, 30 for a rate in [10, 20), 20 for a rate in [0, 10)
\* and 0 for a negative rate; income 1000 with expenses 800 gives 40, with
\* expenses 810 gives 30.
C6_SavingsRateBands ==
    Returned("_calculate_savings_rate_score") =>
        LET i == call.total_income
            e == call.total_expenses
            r == call.result
        IN  /\ i = 0 => r = 0
            /\ (i > 0 /\ 5 * (i - e) >= i) => r = 40
            /\ (i > 0 /\ 10 * (i - e) >= i /\ 5 * (i - e) < i) => r = 30
            /\ (i > 0 /\ i - e >= 0 /\ 10 * (i - e) < i) => r = 20
            /\ (i > 0 /\ i - e < 0) => r = 0
            /\ (i = 1000 /\ e = 800) => r = 40
            /\ (i = 1000 /\ e = 810) => r = 30

\* C6 witness: the call with income 1000 and expenses 810 has returned 30
C6_Witness ==
    /\ Returned("_calculate_savings_rate_score")
    /\ call.total_income = 1000 /\ call.total_expenses = 810
    /\ call.result = 30

\* C7: _calculate_income_expense_score returns 0 for income 0; for income > 0
\* it returns 25 when income > expenses, 10 when expenses exceed 90% of income
\* while income >= expenses, and 0 in every other case.
C7_IncomeExpenseBands ==
    Returned("_calculate_income_expense_score") =>
        LET i == call.total_income
            e == call.total_expenses
        IN  call.result =
                IF i = 0 THEN 0
                ELSE IF i > e THEN 25
                ELSE IF 10 * e > 9 * i /\ i >= e THEN 10
                ELSE 0

\* the expenses of a category in the list passed to the call
CallSpent(c) ==
    SumAmounts(SelectSeq(call.monthly,
        LAMBDA t : t.type = "expense" /\ t.category = c))

PositiveLimits == {c \in DOMAIN call.budgets : call.budgets[c] > 0}

RECURSIVE LimitProduct(_)
LimitProduct(cats) ==
    IF cats = {} THEN 1
    ELSE LET c == CHOOSE x \in cats : TRUE
         IN  call.budgets[c] * LimitProduct(cats \ {c})

Smaller(a, b) == IF a <= b THEN a ELSE b

RECURSIVE ClampedSum(_)
\* the sum over cats of min(spent / limit * 100, 100), times the product of all
\* positive limits
ClampedSum(cats) ==
    IF cats = {} THEN 0
    ELSE LET c == CHOOSE x \in cats : TRUE
         IN  Smaller(CallSpent(c) * 100, 100 * call.budgets[c])
                 * LimitProduct(PositiveLimits \ {c})
             + ClampedSum(cats \ {c})

\* the average of the clamped utilizations is at most k percent
AverageAtMost(k) ==
    ClampedSum(PositiveLimits)
        <= k * Cardinality(PositiveLimits) * LimitProduct(PositiveLimits)

\* C8: for a budget map with at least one positive limit,
\* _calculate_budget_adherence_score averages min(spent / limit * 100, 100)
\* over every category with a positive limit, with or without spend, and
\* returns 35 for an average <= 80, 25 for <= 90, 15 for <= 100, else 5.
C8_AdherenceBands ==
    (Returned("_calculate_budget_adherence_score") /\ PositiveLimits # {}) =>
        call.result =
            IF AverageAtMost(80) THEN 35
            ELSE IF AverageAtMost(90) THEN 25
            ELSE IF AverageAtMost(100) THEN 15
            ELSE 5

\* C8 witness: two categories with positive limits, one of them spent beyond
\* its limit, and the call has returned 25
C8_Witness ==
    /\ Returned("_calculate_budget_adherence_score")
    /\ Cardinality(PositiveLimits) = 2
    /\ \E c \in PositiveLimits : CallSpent(c) > call.budgets[c]
    /\ call.result = 25

\* C9: _calculate_budget_adherence_score returns 0 for an empty budget map and
\* 35 for a non-empty map without a positive limit, whatever the transactions.
C9_DegenerateBudgets ==
    Returned("_calculate_budget_adherence_score") =>
        /\ DOMAIN call.budgets = {} => call.result = 0
        /\ (DOMAIN call.budgets # {} /\ PositiveLimits = {}) => call.result = 35

\* C9 witness: a call with expenses and an empty budget map has returned 0
C9_Witness ==
    /\ Returned("_calculate_budget_adherence_score")
    /\ DOMAIN call.budgets = {}
    /\ \E i \in 1 .. Len(call.monthly) : call.monthly[i].type = "expense"
    /\ call.result = 0

\* C10: the health score total is the sum of the three sub-scores, with the
\* savings-rate score in 0..40, the budget-adherence score in 0..35 and the
\* income-vs-expense score in 0..25, hence the total in 0..100.
C10_TotalIsSumInRange ==
    out.op = "financial_health_score" =>
        /\ out.final_score = out.savings_rate_score + out.budget_adherence_score
                                 + out.income_expense_score
        /\ out.savings_rate_score \in 0 .. 40
        /\ out.budget_adherence_score \in 0 .. 35
        /\ out.income_expense_score \in 0 .. 25
        /\ out.final_score \in 0 .. 100

\* C10 witness: a health score with all three sub-scores at their maximum
C10_Witness ==
    /\ out.op = "financial_health_score"
    /\ out.savings_rate_score = 40
    /\ out.budget_adherence_score = 35
    /\ out.income_expense_score = 25
    /\ out.final_score = 100

\* the score on screen was computed from a month without income and expenses
ScoredAllZero ==
    /\ out.op = "financial_health_score"
    /\ out.total_income = 0
    /\ out.total_expenses = 0

\* C11: for all-zero input (monthly income 0, expenses 0, and a budget map
\* that is empty or holds only limits of 0) the health score total is 0.
C11_AllZeroInputScoresZero ==
    (ScoredAllZero /\ \A c \in DOMAIN budgets : budgets[c] = 0)
        => out.final_score = 0

\* C11, amended: with monthly income 0 and expenses 0 the total is 0 for an
\* empty budget map, and 35 for a non-empty map whose limits are all 0.
C11_AllZeroInputByBudgetMap ==
    ScoredAllZero =>
        /\ DOMAIN budgets = {} => out.final_score = 0
        /\ (DOMAIN budgets # {} /\ \A c \in DOMAIN budgets : budgets[c] = 0)
               => out.final_score = 35

\* C11 witness: a score of 0 from an empty budget map over a ledger that holds
\* records, none of them in the month scored
C11_Witness ==
    /\ ScoredAllZero
    /\ DOMAIN budgets = {}
    /\ ledger # <<>>
    /\ out.final_score = 0

\* C16: the three scoring functions are total: no call raises (no division by
\* zero) and each returns one of its scores, for every combination of zero
\* income, zero expenses, an empty transaction list, an empty budget map and
\* limits of 0.
C16_ScoringIsTotal ==
    call.done =>
        /\ call.result # ZeroDivisionError
        /\ call.fn = "_calculate_savings_rate_score" => call.result \in {0, 20, 30, 40}
        /\ call.fn = "_calculate_budget_adherence_score"
               => call.result \in {0, 5, 15, 25, 35}
        /\ call.fn = "_calculate_income_expense_score" => call.result \in {0, 10, 25}

\* C16 witness: a call whose budget map holds a limit of 0 for a category with
\* spend, next to a positive limit, has returned a score
C16_Witness ==
    /\ Returned("_calculate_budget_adherence_score")
    /\ \E c \in DOMAIN call.budgets : call.budgets[c] = 0 /\ CallSpent(c) > 0
    /\ PositiveLimits # {}
    /\ call.result \in {5, 15, 25, 35}

\* C17: a scoring call given a negative budget limit reports a validation
\* error: the input is not turned into a score.
C17_NegativeLimitRejected ==
    (/\ Returned("_calculate_budget_adherence_score")
     /\ \E c \in DOMAIN call.budgets : call.budgets[c] < 0)
        => call.result \notin 0 .. 35

----------------------------------------------------------------------------
(* Properties of the smart assistant *)

RECURSIVE AmountsAt(_, _)
\* the sum of the amounts at the given positions of a list
AmountsAt(s, positions) ==
    IF positions = {} THEN 0
    ELSE LET i == CHOOSE x \in positions : TRUE
         IN  s[i].amount + AmountsAt(s, positions \ {i})

\* the positions in the history passed to detect_unusual_spending that hold a
\* transaction of the candidate's category
SameCategory ==
    {i \in 1 .. Len(call.transactions) :
        call.transactions[i].category = call.new_transaction.category}

\* C12: detect_unusual_spending returns false when the history holds no
\* transaction of the candidate's category; otherwise it returns true exactly
\* when amount * n > 2 * sum over the n history transactions of that category
\* (history 100, 100: candidate 201 gives true, candidate 200 gives false).
C12_UnusualIffAboveTwiceMean ==
    Returned("detect_unusual_spending") =>
        LET n == Cardinality(SameCategory)
            sum == AmountsAt(call.transactions, SameCategory)
            amount == call.new_transaction.amount
        IN  /\ n = 0 => call.result = FALSE
            /\ n > 0 => (call.result <=> amount * n > 2 * sum)
            /\ (n = 2 /\ sum = 200 /\ amount = 201) => call.result = TRUE
            /\ (n = 2 /\ sum = 200 /\ amount = 200) => call.result = FALSE

\* C12 witness: against a history of two 100s of its category, a candidate of
\* 200 has been judged not unusual
C12_Witness ==
    /\ Returned("detect_unusual_spending")
    /\ Len(call.transactions) = 2
    /\ \A i \in 1 .. 2 :
         /\ call.transactions[i].category = call.new_transaction.category
         /\ call.transactions[i].amount = 100
    /\ call.new_transaction.amount = 200
    /\ call.result = FALSE

\* the positions of the expenses of a category in the list passed to
\* get_recommendations
ExpensesOf(c) ==
    {i \in 1 .. Len(call.transactions) :
        call.transactions[i].type = "expense" /\ call.transactions[i].category = c}

ExpenseTotal(c) == AmountsAt(call.transactions, ExpensesOf(c))

\* the positions in the returned list of the advisories of one kind
AdvisoriesOf(kind) ==
    {i \in 1 .. Len(call.result) : call.result[i].kind = kind}

\* C13: get_recommendations emits exactly one no-budget advisory for each
\* category whose expense total over the whole list is above 20000 and that is
\* not a key of budgets, and none for a budgeted category or a total of at
\* most 20000; income never counts; a single expense Food 25000 with empty
\* budgets gives exactly the Food no-budget advisory followed by the Food
\* highest-spending advisory.
C13_NoBudgetAdvisories ==
    Returned("get_recommendations") =>
        /\ \A c \in EXPENSE_CATEGORIES :
             Cardinality({i \in AdvisoriesOf("no_budget") : call.result[i].category = c})
               = IF ExpenseTotal(c) > 20000 /\ c \notin DOMAIN call.budgets
                 THEN 1 ELSE 0
        /\ \A i \in AdvisoriesOf("no_budget") :
             call.result[i].category \in EXPENSE_CATEGORIES
        /\ (/\ Len(call.transactions) = 1
            /\ call.transactions[1].type = "expense"
            /\ call.transactions[1].category = "Food"
            /\ call.transactions[1].amount = 25000
            /\ DOMAIN call.budgets = {})
           => call.result = <<[kind |-> "no_budget", category |-> "Food"],
                              [kind |-> "highest_spending", category |-> "Food"]>>

\* C13 witness: the call with the single expense Food 25000 and no budgets has
\* returned its two advisories
C13_Witness ==
    /\ Returned("get_recommendations")
    /\ Len(call.transactions) = 1
    /\ call.transactions[1].type = "expense"
    /\ call.transactions[1].category = "Food"
    /\ call.transactions[1].amount = 25000
    /\ DOMAIN call.budgets = {}
    /\ Len(call.result) = 2

\* the position of the first expense of a category
FirstExpense(c) == CHOOSE i \in ExpensesOf(c) : \A j \in ExpensesOf(c) : i <= j

\* C14: get_recommendations emits exactly one highest-spending advisory, as the
\* last element, when the list holds an expense, and returns the empty list
\* when it holds none, whatever the budgets; the advisory names the category
\* with the highest expense total, and among categories tied for it the one
\* whose first expense comes earliest in the list.
C14_HighestSpendingAdvisory ==
    Returned("get_recommendations") =>
        LET spenders == {c \in EXPENSE_CATEGORIES : ExpensesOf(c) # {}}
        IN  IF spenders = {}
            THEN call.result = <<>>
            ELSE /\ AdvisoriesOf("highest_spending") = {Len(call.result)}
                 /\ LET top == call.result[Len(call.result)].category
                    IN  /\ top \in spenders
                        /\ \A c \in spenders \ {top} :
                             \/ ExpenseTotal(c) < ExpenseTotal(top)
                             \/ /\ ExpenseTotal(c) = ExpenseTotal(top)
                                /\ FirstExpense(top) < FirstExpense(c)

\* C14 witness: Other and Food are tied, Other was spent on first, and the
\* advisory returned names Other
C14_Witness ==
    /\ Returned("get_recommendations")
    /\ ExpensesOf("Other") # {} /\ ExpensesOf("Food") # {}
    /\ ExpenseTotal("Other") = ExpenseTotal("Food")
    /\ FirstExpense("Other") < FirstExpense("Food")
    /\ call.result[Len(call.result)] = [kind |-> "highest_spending", category |-> "Other"]

----------------------------------------------------------------------------
(* Properties of the file readers and of show_balance *)

\* the positions of the lines of the ledger file that parse
ParsedLines ==
    {i \in 1 .. Len(ledger) :
        /\ DOMAIN ledger[i] = {"date", "type", "category", "description", "amount"}
        /\ ledger[i].description # "a,b"
        /\ ledger[i].date.month \in 1 .. 12}

\* the positions of the parsed lines of one type
ParsedOfType(type) == {i \in ParsedLines : ledger[i].type = type}

\* C15: show_balance reports as total_income the exact integer sum of the
\* income amounts, as total_expenses the exact integer sum of the expense
\* amounts, and as balance their difference, which may be negative; three
\* expenses of 333, 333 and 334 total exactly 1000.
C15_BalanceIsExactSums ==
    out.op = "show_balance" =>
        /\ out.total_income = AmountsAt(ledger, ParsedOfType("income"))
        /\ out.total_expenses = AmountsAt(ledger, ParsedOfType("expense"))
        /\ out.balance = out.total_income - out.total_expenses
        /\ (/\ Len(ledger) = 3 /\ ParsedOfType("expense") = {1, 2, 3}
            /\ \E i \in 1 .. 3 :
                 /\ ledger[i].amount = 334
                 /\ \A j \in (1 .. 3) \ {i} : ledger[j].amount = 333)
           => out.total_expenses = 1000

\* C15 witness: the balance of three expenses of 333, 333 and 334 is -1000
C15_Witness ==
    /\ out.op = "show_balance"
    /\ Len(ledger) = 3 /\ ParsedOfType("expense") = {1, 2, 3}
    /\ ledger[1].amount = 333 /\ ledger[2].amount = 333 /\ ledger[3].amount = 334
    /\ out.total_expenses = 1000
    /\ out.balance = -1000

\* how often a line occurs in a list
Occurrences(s, line) == Cardinality({i \in 1 .. Len(s) : s[i] = line})

\* C19: _read_transactions skips a line with a wrong number of fields, an
\* unparsable date or a non-integer amount without failing, and returns every
\* line that parses: list_transactions shows exactly the parsing lines of the
\* file, each as often as the file holds it.
C19_MalformedLinesSkipped ==
    out.op = "list_transactions" =>
        LET rows == IF out.msg = "table" THEN out.rows ELSE <<>>
        IN  /\ Len(rows) = Cardinality(ParsedLines)
            /\ \A i \in ParsedLines :
                 Occurrences(rows, ledger[i]) = Occurrences(ledger, ledger[i])

\* C19 witness: a file with a parsing line after a malformed one, and the
\* table shows the parsing line
C19_Witness ==
    /\ out.op = "list_transactions" /\ out.msg = "table"
    /\ \E i \in 1 .. Len(ledger) :
         /\ i \notin ParsedLines
         /\ i + 1 \in ParsedLines
         /\ Occurrences(out.rows, ledger[i + 1]) > 0
    /\ Cardinality(ParsedLines) < Len(ledger)

\* C20: a malformed line of the budgets file is skipped by _read_budgets as it
\* is by the dashboard's load_budgets, and never makes view_budget, set_budget
\* or the health score fail: view_budget shows the budgets load_budgets
\* returns, the health score is computed, and set_budget with a valid
\* positive amount sets the budget.
C20_MalformedBudgetLineSkipped ==
    /\ [](out.op = "view_budget" =>
            /\ out.msg # "ValueError"
            /\ DOMAIN ViewRows = DOMAIN load_budgets(budgets))
    /\ [](out.op = "financial_health_score" => "final_score" \in DOMAIN out)
    /\ [][\A category \in BUDGET_CATEGORIES, amount_str \in {"0.07", "0.10"} :
             set_budget(category, amount_str) => out'.msg = "Budget set"]_vars

----------------------------------------------------------------------------
(* Properties of the entry operations *)

\* the last operation reported a transaction as added
Added ==
    \/ out.op = "add_expense" /\ out.msg = "Expense added"
    \/ out.op = "add_income" /\ out.msg = "Income added"

\* what is typed is refused: no number, not positive, or no date
Refused(amount_str, date_str) ==
    amount_str \in {"abc", "-0.01", "0"} \/ date_str = "bad"

\* C21: the ledger is append-only with positive amounts: every record has
\* amount > 0; a call reported as successful appends exactly one record at the
\* end and leaves the earlier records as they were; a call with an amount
\* <= 0, an unparsable amount or an unparsable date leaves the ledger unchanged.
C21_LedgerAppendOnly ==
    /\ [](\A i \in 1 .. Len(ledger) : ledger[i].amount > 0)
    /\ [][Added' => (/\ Len(ledger') = Len(ledger) + 1
                     /\ SubSeq(ledger', 1, Len(ledger)) = ledger)]_vars
    /\ [][(~Added') => ledger' = ledger]_vars
    /\ [][\A amount_str \in EntryAmountStrs, description \in EntryDescriptions,
             date_str \in EntryDateStrs :
             (/\ Refused(amount_str, date_str)
              /\ \/ add_expense(amount_str, "Food", description, date_str)
                 \/ add_income(amount_str, "Other", description, date_str))
                => (ledger' = ledger /\ ~Added')]_vars

\* C21 witness: after two records were entered, an amount that is not positive
\* has been refused
C21_Witness ==
    /\ Len(ledger) = 2
    /\ out.op = "add_expense" /\ out.msg = "Amount must be positive"

\* C22: no entry operation appends a record whose description holds a comma,
\* so a transaction reported as added is returned by the next
\* _read_transactions with the fields it was entered with.
C22_AddedIsReadBack ==
    /\ \A i \in 1 .. Len(ledger) : ledger[i].description # "a,b"
    /\ Added => \E i \in 1 .. Len(_read_transactions(ledger)) :
                    _read_transactions(ledger)[i] = ledger[Len(ledger)]

\* C23: set_budget is last-write-wins per category: a successful call leaves
\* one entry for its category, with the new positive limit, and every other
\* entry as it was; a call with an amount <= 0 or an unparsable amount leaves
\* the map unchanged; every stored limit is > 0 after any sequence of calls.
C23_LastWriteWins ==
    /\ [](\A c \in DOMAIN budgets : budgets[c] > 0)
    /\ [][\A category \in BUDGET_CATEGORIES, amount_str \in BudgetStrs :
             set_budget(category, amount_str) =>
                (IF amount_str \in {"0.07", "0.10"}
                THEN /\ out'.msg = "Budget set"
                     /\ DOMAIN budgets' = DOMAIN budgets \cup {category}
                     /\ budgets'[category] = (IF amount_str = "0.07" THEN 7 ELSE 10)
                     /\ \A c \in DOMAIN budgets \ {category} : budgets'[c] = budgets[c]
                ELSE /\ out'.msg # "Budget set"
                     /\ budgets' = budgets)]_vars

\* C23 witness: a budget has been set next to another category's budget, and
\* the two limits differ
C23_Witness ==
    /\ out.op = "set_budget" /\ out.msg = "Budget set"
    /\ DOMAIN budgets = {"Food", "Other"}
    /\ budgets["Food"] # budgets["Other"]

\* the positions of the records entered before the last one, of its category,
\* that a read returns
EarlierOfCategory ==
    {i \in 1 .. (Len(ledger) - 1) :
        /\ ledger[i].category = ledger[Len(ledger)].category
        /\ ledger[i].description # "a,b"}

\* C25: the history add_expense checks the new expense against excludes that
\* expense: the warning is shown exactly when the category had an earlier
\* transaction and the new amount is above twice the mean of the earlier
\* transactions of the category (earlier 100, 100 and a new 201 warn).
C25_WarningAgainstEarlier ==
    (out.op = "add_expense" /\ out.msg = "Expense added") =>
        (out.warning <=>
            /\ EarlierOfCategory # {}
            /\ ledger[Len(ledger)].amount * Cardinality(EarlierOfCategory)
                   > 2 * AmountsAt(ledger, EarlierOfCategory))

----------------------------------------------------------------------------
(* Properties of concurrent set_budget operations *)

\* both processes have reported that their budget was set
BothSucceeded ==
    /\ DOMAIN writers = Processes
    /\ \A p \in Processes : writers[p].pc = "done" /\ writers[p].msg = "Budget set"

\* the budgets file holds the update of process p
HoldsUpdate(p) ==
    /\ writers[p].category \in DOMAIN budgets
    /\ budgets[writers[p].category] = Cents(writers[p].amount_str)

\* C24: two set_budget operations for different categories that run side by
\* side, each reading the file, updating its own copy and rewriting the file
\* in separate steps, can lose an update: once both have reported success the
\* file is the copy of one of them, and an update that copy was read too early
\* to hold is missing from the file.
C24_FileIsOneWritersCopy ==
    BothSucceeded =>
        \E q \in Processes :
            /\ budgets = writers[q].budgets
            /\ \A p \in Processes \ {q} :
                 writers[p].category \notin DOMAIN writers[q].budgets => ~HoldsUpdate(p)

\* C24 witness: both operations, for different categories, have reported
\* success, and the update of one of them is missing from the file
C24_Witness ==
    /\ BothSucceeded
    /\ writers[1].category # writers[2].category
    /\ \E p \in Processes : writers[p].category \notin DOMAIN budgets

----------------------------------------------------------------------------
(* The two front ends *)

\* C26: for the same ledger file, budgets file and date, the dashboard's
\* Financial Health tab shows the savings-rate, budget-adherence and
\* income-vs-expense scores and the total that the menu tool's
\* financial_health_score computes.
C26_FrontEndsAgree ==
    (/\ out.op = "dashboard_financial_health" /\ out.msg = "score"
     /\ ~_read_budgets_raises(budgets)) =>
        LET menu == HealthScore(_read_transactions(ledger), _read_budgets(budgets), now)
        IN  /\ out.savings_rate_score = menu.savings_rate_score
            /\ out.budget_adherence_score = menu.budget_adherence_score
            /\ out.income_expense_score = menu.income_expense_score
            /\ out.final_score = menu.final_score

\* C27: the spend view_budget shows for a budget category with a positive
\* limit equals the spend financial_health_score uses for that category in its
\* adherence score, for
\* the same ledger, budgets and reference date, whatever dates were entered.
C27_SameSpendInBothViews ==
    [][(/\ out'.op = "view_budget" /\ out'.msg = "table"
        /\ now' = now /\ ledger' = ledger /\ budgets' = budgets)
       => \A category \in Eligible(_read_budgets(budgets)) :
            out'.rows[category].spent =
                CategorySpent(monthly_transactions(_read_transactions(ledger), now),
                              category)]_vars

\* the menu tool has shown a health score
Scored == out.op = "financial_health_score" /\ "final_score" \in DOMAIN out

\* C28: whenever the expenses the score is computed from exceed the income, or
\* the income is 0, the total is below 50 and the interpretation is "Needs
\* Attention", whatever the budgets; a total of 75 or more, interpreted as
\* "Excellent", occurs only when the income exceeds the expenses.
C28_DeficitNeedsAttention ==
    Scored =>
        /\ (out.total_expenses > out.total_income \/ out.total_income = 0)
              => (out.final_score < 50 /\ out.interpretation = "Needs Attention")
        /\ out.final_score >= 75
              => (out.total_income > out.total_expenses
                    /\ out.interpretation = "Excellent")
        /\ (out.total_income > 0 /\ out.total_income = out.total_expenses)
              => out.final_score < 75

\* C28 witness: expenses above a positive income under a kept budget: 45 points
C28_Witness ==
    /\ Scored
    /\ out.total_income > 0 /\ out.total_expenses > out.total_income
    /\ out.budget_adherence_score = 35
    /\ out.final_score = 45
    /\ out.interpretation = "Needs Attention"

\* a total of 75 or more is shown for an income above the expenses
C28_WitnessExcellent ==
    Scored /\ out.final_score >= 75 /\ out.interpretation = "Excellent"

\* the score of the menu tool for a ledger file, under the stored budgets and
\* the date of the clock
ScoreOf(file) == HealthScore(_read_transactions(file), _read_budgets(budgets), now)

\* the step appends one record of the given type and leaves budgets and clock
Appends(type) ==
    /\ Len(ledger') = Len(ledger) + 1
    /\ SubSeq(ledger', 1, Len(ledger)) = ledger
    /\ ledger'[Len(ledger')].type = type
    /\ budgets' = budgets /\ now' = now

\* C29: for a fixed budget map and reference date, appending an expense to the
\* ledger never increases the health score total nor any of its three
\* sub-scores, and appending an income never decreases the total.
C29_ScoreMonotone ==
    /\ [][Appends("expense") =>
            (/\ ScoreOf(ledger').final_score <= ScoreOf(ledger).final_score
             /\ ScoreOf(ledger').savings_rate_score <= ScoreOf(ledger).savings_rate_score
             /\ ScoreOf(ledger').budget_adherence_score
                    <= ScoreOf(ledger).budget_adherence_score
             /\ ScoreOf(ledger').income_expense_score
                    <= ScoreOf(ledger).income_expense_score)]_vars
    /\ [][Appends("income") =>
            ScoreOf(ledger').final_score >= ScoreOf(ledger).final_score]_vars

\* C29 witness: the last expense entered took the budget adherence score, and
\* with it the total, below what the ledger before it scored
C29_Witness ==
    /\ out.op = "add_expense" /\ out.msg = "Expense added"
    /\ Len(ledger) = 2
    /\ ledger[2].type = "expense"
    /\ ScoreOf(ledger).budget_adherence_score
          < ScoreOf(SubSeq(ledger, 1, 1)).budget_adherence_score
    /\ ScoreOf(ledger).final_score < ScoreOf(SubSeq(ledger, 1, 1)).final_score

----------------------------------------------------------------------------
(* Properties of restore_backup *)

\* C30: restore_backup is all-or-nothing: after it returns, the transactions
\* and budgets files hold the contents of the selected backup or what they
\* held before the call; when removing or unpacking raises, the files hold
\* what they held before and success is not reported.
C30_RestoreAllOrNothing ==
    [][\A selected \in backups, outcome \in UnpackOutcomes :
         restore_backup(selected, outcome) =>
            (/\ \/ ledger' = selected.transactions /\ budgets' = selected.budgets
                \/ ledger' = ledger /\ budgets' = budgets
             /\ outcome # "unpacked" =>
                   (/\ ledger' = ledger /\ budgets' = budgets
                    /\ \A i \in 1 .. Len(out'.msgs) :
                          out'.msgs[i] # "Backup restored successfully!"))]_vars

====
